---- MODULE Spec2Model ----
(***************************************************************************)
(* The file-watching launchers of demo-editing/: hot_reload_server.py,     *)
(* simple_dev.py, dev_server.py and dev_server_advanced.py.                *)
(*                                                                         *)
(* Time is counted in tenths of a second, so that every interval of the    *)
(* sources (0.5 s, 1.0 s, 2.0 s, 3 s, 5 s) is a whole number.  The clock   *)
(* advances one second at a time (TickLen).  A sleep is a lower bound: a   *)
(* thread that sleeps d is runnable once d has passed and may run later.   *)
(* The handlers read the clock only to subtract last_reload from it, so    *)
(* the state holds that difference, since_reload = time.time() -           *)
(* last_reload, capped at AgeCap, beyond which every filter behaves alike. *)
(***************************************************************************)
EXTENDS Integers, Sequences, FiniteSets, TLC

(***************************************************************************)
(* Bounds of the model.                                                    *)
(***************************************************************************)
\* number of file-system events the change source produces in one run
MaxEvents == 2
\* number of child process slots (processes alive or referenced at once)
MaxProcs == 2
\* number of events the change source produces in one run of simple_dev.py
MaxSimpleEvents == 3

(***************************************************************************)
(* Program constants, in tenths of a second unless said otherwise.         *)
(***************************************************************************)
HOT_RELOAD_DELAY == 20
SIMPLE_DEBOUNCE == 10
GRADIO_RELOAD_DELAY == 10
PYTHON_RELOAD_DELAY == 10
CSS_RELOAD_DELAY == 5
RESET_PENDING_SLEEP == 10
START_WAIT == 30
RESTART_SETTLE == 20
TERMINATE_TIMEOUT == 50
PORT_KILL_SLEEP == 10
RETRY_SLEEP == 30
max_retries == 3
SIMPLE_START_WAIT == 50
SIMPLE_SETTLE == 20

\* the step of the clock: one second, the shortest sleep of the programs
TickLen == RESET_PENDING_SLEEP

Max(a, b) == IF a >= b THEN a ELSE b

(***************************************************************************)
(* Paths are sequences of characters; str.endswith and the `in' test on    *)
(* strings are the suffix and the substring test.                          *)
(***************************************************************************)
EndsWith(s, suf) ==
    /\ Len(s) >= Len(suf)
    /\ SubSeq(s, Len(s) - Len(suf) + 1, Len(s)) = suf

Contains(s, sub) ==
    \E i \in 1..(Len(s) - Len(sub) + 1) : SubSeq(s, i, i + Len(sub) - 1) = sub

DotPy == <<".", "p", "y">>
DotCss == <<".", "c", "s", "s">>
DotPyc == <<".", "p", "y", "c">>
PyCache == <<"_", "_", "p", "y", "c", "a", "c", "h", "e", "_", "_">>

PathAppPy == <<"d", "/", "a">> \o DotPy
PathStyleCss == <<"d", "/", "s">> \o DotCss
PathAppPyc == <<"d", "/", "a">> \o DotPyc
PathCachedPy == <<"d", "/">> \o PyCache \o <<"/", "a">> \o DotPy
PathNotes == <<"d", "/", "n", ".", "t", "x", "t">>
PathPyBak == <<"d", "/", "a">> \o DotPy \o <<".", "b", "a", "k">>

Paths == {PathAppPy, PathStyleCss, PathAppPyc, PathCachedPy, PathNotes, PathPyBak}

Kinds == {"modified", "created", "moved"}

\* watchdog's FileSystemEvent: is_directory, src_path and the event type
Events == [is_directory : BOOLEAN, src_path : Paths, kind : Kinds]

Ev(d, p, k) == [is_directory |-> d, src_path |-> p, kind |-> k]

(***************************************************************************)
(* The handlers' filters.  Each gives the branch the handler takes for an  *)
(* event, elapsed = current_time - self.last_reload, and the pending flag. *)
(***************************************************************************)
Handlers == {"HotReloadHandler", "SimpleFileHandler", "GradioReloadHandler",
             "PythonReloadHandler", "CSSReloadHandler"}

reload_delay(h) ==
    CASE h = "HotReloadHandler" -> HOT_RELOAD_DELAY
      [] h = "SimpleFileHandler" -> SIMPLE_DEBOUNCE
      [] h = "GradioReloadHandler" -> GRADIO_RELOAD_DELAY
      [] h = "PythonReloadHandler" -> PYTHON_RELOAD_DELAY
      [] h = "CSSReloadHandler" -> CSS_RELOAD_DELAY

\* (a variant of HotHandleFileChange without the test of pending_restart)
HotHandleFileChangeNoPending(ev, elapsed, pending) ==
    IF ev.is_directory THEN "directory"
    ELSE IF ~(EndsWith(ev.src_path, DotPy) \/ EndsWith(ev.src_path, DotCss))
        THEN "extension"
    ELSE IF Contains(ev.src_path, PyCache) \/ EndsWith(ev.src_path, DotPyc)
        THEN "excluded"
    ELSE IF elapsed < HOT_RELOAD_DELAY THEN "debounced"
    ELSE "accepted"

\* (a variant of HotHandleFileChange without the test for compiled artifacts)
HotHandleFileChangeNoExclusion(ev, elapsed, pending) ==
    IF ev.is_directory THEN "directory"
    ELSE IF ~(EndsWith(ev.src_path, DotPy) \/ EndsWith(ev.src_path, DotCss))
        THEN "extension"
    ELSE IF elapsed < HOT_RELOAD_DELAY THEN "debounced"
    ELSE IF pending THEN "additional"
    ELSE "accepted"

\* (a variant of HotHandleFileChange that filters a moved event by the path
\* the file has been moved to)
HotHandleFileChangeDestPath(ev, elapsed, pending) ==
    LET path == IF ev.kind = "moved" THEN ev.dest_path ELSE ev.src_path
    IN IF ev.is_directory THEN "directory"
       ELSE IF ~(EndsWith(path, DotPy) \/ EndsWith(path, DotCss))
           THEN "extension"
       ELSE IF Contains(path, PyCache) \/ EndsWith(path, DotPyc)
           THEN "excluded"
       ELSE IF elapsed < HOT_RELOAD_DELAY THEN "debounced"
       ELSE IF pending THEN "additional"
       ELSE "accepted"

\* HotReloadHandler._handle_file_change, up to the decision
HotHandleFileChange(ev, elapsed, pending) ==
    IF ev.is_directory THEN "directory"
    ELSE IF ~(EndsWith(ev.src_path, DotPy) \/ EndsWith(ev.src_path, DotCss))
        THEN "extension"
    ELSE IF Contains(ev.src_path, PyCache) \/ EndsWith(ev.src_path, DotPyc)
        THEN "excluded"
    ELSE IF elapsed < HOT_RELOAD_DELAY THEN "debounced"
    ELSE IF pending THEN "additional"
    ELSE "accepted"

\* SimpleFileHandler.on_modified, up to the decision
SimpleOnModified(ev, elapsed) ==
    IF ev.is_directory THEN "directory"
    ELSE IF ~EndsWith(ev.src_path, DotPy) THEN "extension"
    ELSE IF Contains(ev.src_path, PyCache) \/ EndsWith(ev.src_path, DotPyc)
        THEN "excluded"
    ELSE IF elapsed < SIMPLE_DEBOUNCE THEN "debounced"
    ELSE "accepted"

\* GradioReloadHandler.on_modified, up to the decision
GradioOnModified(ev, elapsed) ==
    IF ev.is_directory THEN "directory"
    ELSE IF ~(EndsWith(ev.src_path, DotPy) \/ EndsWith(ev.src_path, DotCss))
        THEN "extension"
    ELSE IF elapsed < GRADIO_RELOAD_DELAY THEN "debounced"
    ELSE "accepted"

\* (a variant of PythonOnModified that takes .css files as well)
PythonOnModifiedPyOrCss(ev, elapsed) ==
    IF ev.is_directory THEN "directory"
    ELSE IF ~(EndsWith(ev.src_path, DotPy) \/ EndsWith(ev.src_path, DotCss))
        THEN "extension"
    ELSE IF Contains(ev.src_path, PyCache) \/ EndsWith(ev.src_path, DotPyc)
        THEN "excluded"
    ELSE IF elapsed < PYTHON_RELOAD_DELAY THEN "debounced"
    ELSE "accepted"

\* (a variant of PythonOnModified with `and' for the `or' of its first test)
PythonOnModifiedAnd(ev, elapsed) ==
    IF ev.is_directory /\ ~EndsWith(ev.src_path, DotPy) THEN "directory"
    ELSE IF Contains(ev.src_path, PyCache) \/ EndsWith(ev.src_path, DotPyc)
        THEN "excluded"
    ELSE IF elapsed < PYTHON_RELOAD_DELAY THEN "debounced"
    ELSE "accepted"

\* PythonReloadHandler.on_modified, up to the decision
PythonOnModified(ev, elapsed) ==
    IF ev.is_directory \/ ~EndsWith(ev.src_path, DotPy) THEN
        (IF ev.is_directory THEN "directory" ELSE "extension")
    ELSE IF Contains(ev.src_path, PyCache) \/ EndsWith(ev.src_path, DotPyc)
        THEN "excluded"
    ELSE IF elapsed < PYTHON_RELOAD_DELAY THEN "debounced"
    ELSE "accepted"

\* CSSReloadHandler.on_modified, up to the decision
CssOnModified(ev, elapsed) ==
    IF ev.is_directory \/ ~EndsWith(ev.src_path, DotCss) THEN
        (IF ev.is_directory THEN "directory" ELSE "extension")
    ELSE IF elapsed < CSS_RELOAD_DELAY THEN "debounced"
    ELSE "accepted"

\* watchdog's FileSystemEventHandler.dispatch: the method for the event's
\* type; a handler that does not override it inherits an empty method
Dispatch(h, ev, elapsed, pending) ==
    IF h = "HotReloadHandler" THEN HotHandleFileChange(ev, elapsed, pending)
    ELSE IF ev.kind # "modified" THEN "not_overridden"
    ELSE CASE h = "SimpleFileHandler" -> SimpleOnModified(ev, elapsed)
           [] h = "GradioReloadHandler" -> GradioOnModified(ev, elapsed)
           [] h = "PythonReloadHandler" -> PythonOnModified(ev, elapsed)
           [] h = "CSSReloadHandler" -> CssOnModified(ev, elapsed)


(***************************************************************************)
(* State.                                                                  *)
(***************************************************************************)
VARIABLES
    queue,            \* the observer's event queue: events waiting for dispatch
    nEvents,          \* events produced so far by the change source
    watching,         \* the observer is started and not stopped
    pc,               \* position of the main thread and of the observer thread
    timer,            \* time left of the sleep or timed wait a thread is in
    target,           \* the Popen object kill_current_process works on (0: none)
    since_reload,     \* per handler: time.time() - last_reload, capped
    pending_restart,  \* HotReloadHandler.pending_restart
    resetTimers,      \* time left of the sleep of every reset_pending thread
    process,          \* self.process of the server manager (0: None)
    alive,            \* launched child processes that are running
    bound,            \* running children with a connection on the port
    retry_count,      \* GradioServerManager.retry_count
    sys_modules,      \* application modules present in sys.modules
    calls,            \* per handler: calls of the restart / reload it triggers
    restarts,         \* executions of restart_server
    delivered,        \* the event handled last and the branch its handler took
    burst,            \* the burst of eligible events the last handled one is in
    arrival_gap,      \* time since the last eligible event arrived, capped
    since_accept,     \* time since the last event was accepted, capped
    probe,            \* which histories are recorded: "counts", "burst", "abandon"
    exit_status,      \* what main() returns: "running" until that is decided
    main_starts,      \* executions of start_server by the main thread
    stops,            \* calls of stop_server that have returned
    exists,           \* the watch directories that exist (os.path.exists)
    scheduled         \* the watch directories scheduled with the observer

eventVars == <<queue, nEvents>>
threadVars == <<pc, timer, target>>
handlerVars == <<since_reload, pending_restart, resetTimers>>
procVars == <<process, alive, bound, retry_count>>
ghostVars == <<calls, restarts, delivered, burst>>
ageVars == <<arrival_gap, since_accept>>
watchVars == <<exists, scheduled>>
otherVars == <<sys_modules, probe, exit_status, main_starts, stops, watchVars>>

vars == <<eventVars, watching, threadVars, handlerVars, procVars, otherVars,
          ghostVars, ageVars>>

Threads == {"main", "watcher"}

\* main(): watch_dirs of hot_reload_server (under project_root), and the one
\* directory simple_dev schedules
HotWatchDirs == {"demo-editing", "minigpt4"}
SimpleWatchDirs == {"demo-editing"}
Pids == 1..MaxProcs
\* the largest debounce interval: longer times are all alike to the filters
AgeCap == HOT_RELOAD_DELAY
Min(a, b) == IF a <= b THEN a ELSE b

NoDelivery ==
    [handler |-> "none", ev |-> Ev(FALSE, PathNotes, "modified"),
     outcome |-> "none", pending |-> FALSE, prev |-> "none"]

NoBurst == [size |-> 0, acc |-> 0, first |-> FALSE]

Eligible(outcome) == outcome \in {"debounced", "additional", "accepted"}

\* the event passes the path filters of handler h (whatever the clock says)
PathEligible(h, ev) == Eligible(Dispatch(h, ev, AgeCap, FALSE))

\* the burst after an eligible event was handled; `cont' says that the event
\* arrived within one debounce interval of the eligible event before it
BurstAfter(b, cont, accepted) ==
    IF b.size > 0 /\ cont
    THEN [size |-> b.size + 1,
          acc |-> b.acc + (IF accepted THEN 1 ELSE 0), first |-> b.first]
    ELSE [size |-> 1,
          acc |-> (IF accepted THEN 1 ELSE 0), first |-> accepted]

RemoveAt(s, i) == [j \in 1..(Len(s) - 1) |-> IF j < i THEN s[j] ELSE s[j + 1]]

\* the record of an event handled: the branch taken, the flag as the handler
\* found it and (where recorded) how the event handled before it ended
Delivery(h, ev, out, pending) ==
    [handler |-> h, ev |-> ev, outcome |-> out, pending |-> pending,
     prev |-> IF "abandon" \in probe THEN delivered.outcome ELSE "none"]

Goto(t, label) == pc' = [pc EXCEPT ![t] = label]
Sleep(t, d) == timer' = [timer EXCEPT ![t] = d]

(***************************************************************************)
(* Common initial state: nothing launched, every handler just constructed  *)
(* (last_reload = 0, so the clock is far ahead of it).                     *)
(***************************************************************************)
InitHandlers0 ==
    /\ queue = <<>>
    /\ nEvents = 0
    /\ timer = [t \in Threads |-> 0]
    /\ target = [t \in Threads |-> 0]
    /\ since_reload = [h \in Handlers |-> AgeCap]
    /\ pending_restart = FALSE
    /\ resetTimers = <<>>
    /\ retry_count = 0
    /\ sys_modules = {}
    /\ calls = [h \in Handlers |-> 0]
    /\ restarts = 0
    /\ delivered = NoDelivery
    /\ burst = NoBurst
    /\ arrival_gap = AgeCap
    /\ since_accept = AgeCap
    /\ exit_status = "running"
    /\ main_starts = 0
    /\ stops = 0

\* ... and no child process launched (self.process = None)
InitCommon ==
    /\ InitHandlers0
    /\ process = 0
    /\ alive = {}
    /\ bound = {}

(***************************************************************************)
(* The clock advances by one second: sleeps run down, ages grow.           *)
(***************************************************************************)
Tick ==
    /\ \/ \E t \in Threads : timer[t] > 0
       \/ \E i \in 1..Len(resetTimers) : resetTimers[i] > 0
       \/ \E h \in Handlers : since_reload[h] < AgeCap
       \/ arrival_gap < AgeCap
       \/ since_accept < AgeCap
    /\ timer' = [t \in Threads |-> Max(0, timer[t] - TickLen)]
    /\ resetTimers' = [i \in 1..Len(resetTimers) |-> Max(0, resetTimers[i] - TickLen)]
    /\ since_reload' = [h \in Handlers |-> Min(AgeCap, since_reload[h] + TickLen)]
    /\ arrival_gap' = Min(AgeCap, arrival_gap + TickLen)
    /\ since_accept' = Min(AgeCap, since_accept + TickLen)
    /\ UNCHANGED <<eventVars, watching, pc, target, pending_restart, procVars,
                   otherVars, ghostVars>>

(***************************************************************************)
(* hot_reload_server.py: GradioServerManager, run by the main thread (the  *)
(* initial start, the shutdown) and by the observer thread (restarts).     *)
(***************************************************************************)
\* main(): `return 1' when start_server has returned False
ReturnStatus(t, ok) == IF t = "main" /\ ~ok THEN "1" ELSE exit_status

\* where start_server returns to: main() tests the result, restart_server
\* goes on to handle_restart_failure when it is False
StartServerReturn(t, ok) ==
    IF t = "main"
    THEN (IF ok THEN "serving" ELSE "finally")
    ELSE (IF ok THEN "reset_pending" ELSE "handle_restart_failure")

\* where kill_current_process returns to: stop_server, which ends main(),
\* or restart_server, which goes on to its sleep of 2 s
KillReturn(t) == IF t = "main" THEN "stop_server_return" ELSE "settle"
KillReturnSleep(t) == IF t = "main" THEN 0 ELSE RESTART_SETTLE

\* slots of the model for a new child: not running and not waited for
FreePids == {p \in Pids : p \notin alive /\ \A t \in Threads : target[t] # p}

\* (a variant of StartFileWatcher without the test os.path.exists)
StartFileWatcherAllDirs ==
    /\ pc["main"] = "start_file_watcher"
    /\ scheduled' = HotWatchDirs
    /\ watching' = TRUE
    /\ Goto("main", "start_server")
    /\ UNCHANGED <<eventVars, timer, target, handlerVars, procVars,
                   sys_modules, probe, exit_status, main_starts, stops,
                   exists, ghostVars, ageVars>>

\* start_file_watcher: the handler is scheduled for every watch directory
\* that exists, and the observer started
StartFileWatcher ==
    /\ pc["main"] = "start_file_watcher"
    /\ scheduled' = {d \in HotWatchDirs : d \in exists}
    /\ watching' = TRUE
    /\ Goto("main", "start_server")
    /\ UNCHANGED <<eventVars, timer, target, handlerVars, procVars,
                   sys_modules, probe, exit_status, main_starts, stops,
                   exists, ghostVars, ageVars>>

\* start_server, first statement: kill_process_on_port kills every process
\* with a connection on the port and sleeps a second for each
KillProcessOnPort(t) ==
    /\ pc[t] = "start_server"
    /\ alive' = alive \ bound
    /\ bound' = {}
    /\ Sleep(t, IF bound # {} THEN PORT_KILL_SLEEP ELSE 0)
    /\ Goto(t, "popen")
    /\ main_starts' = IF t = "main" THEN main_starts + 1 ELSE main_starts
    /\ UNCHANGED <<eventVars, watching, target, handlerVars, process,
                   retry_count, sys_modules, probe, watchVars, exit_status, stops,
                   ghostVars, ageVars>>

\* start_server: subprocess.Popen and the assignment to self.process, then
\* the sleep of 3 s; Popen may raise, which start_server turns into False
Popen(t) ==
    /\ pc[t] = "popen"
    /\ timer[t] = 0
    /\ \/ /\ FreePids # {}
          /\ LET p == CHOOSE q \in FreePids : \A r \in FreePids : q <= r
             IN /\ alive' = alive \cup {p}
                /\ process' = p
          /\ Sleep(t, START_WAIT)
          /\ Goto(t, "start_wait")
          /\ UNCHANGED exit_status
       \/ /\ Goto(t, StartServerReturn(t, FALSE))
          /\ exit_status' = ReturnStatus(t, FALSE)
          /\ UNCHANGED <<alive, process, timer>>
    /\ UNCHANGED <<eventVars, watching, target, handlerVars, bound,
                   retry_count, sys_modules, probe, watchVars, main_starts, stops,
                   ghostVars, ageVars>>

\* start_server after its sleep: self.process.poll() decides the result
StartServerPoll(t) ==
    /\ pc[t] = "start_wait"
    /\ timer[t] = 0
    /\ IF process \in alive
       THEN /\ retry_count' = 0
            /\ Goto(t, StartServerReturn(t, TRUE))
       ELSE /\ Goto(t, StartServerReturn(t, FALSE))
            /\ UNCHANGED retry_count
    /\ exit_status' = ReturnStatus(t, process \in alive)
    /\ UNCHANGED <<eventVars, watching, timer, target, handlerVars, process,
                   alive, bound, sys_modules, probe, watchVars, main_starts, stops,
                   ghostVars, ageVars>>

\* restart_server: entered from the handler and from handle_restart_failure
\* (after its sleep of 3 s)
RestartServer ==
    /\ pc["watcher"] = "restart_server"
    /\ timer["watcher"] = 0
    /\ restarts' = IF "counts" \in probe THEN restarts + 1 ELSE restarts
    /\ Goto("watcher", "kill_current_process")
    /\ UNCHANGED <<eventVars, watching, timer, target, handlerVars, procVars,
                   otherVars, calls, delivered, burst, ageVars>>

\* kill_current_process: terminate() and the timed wait when self.process is
\* running; terminate() may raise, which the generic except branch swallows
KillCurrentProcess(t) ==
    /\ pc[t] = "kill_current_process"
    /\ IF process # 0 /\ process \in alive
       THEN /\ target' = [target EXCEPT ![t] = process]
            /\ \/ /\ Sleep(t, TERMINATE_TIMEOUT)
                  /\ Goto(t, "wait_term")
               \/ /\ Sleep(t, KillReturnSleep(t))
                  /\ Goto(t, KillReturn(t))
       ELSE /\ target' = [target EXCEPT ![t] = 0]
            /\ Sleep(t, KillReturnSleep(t))
            /\ Goto(t, KillReturn(t))
    /\ UNCHANGED <<eventVars, watching, handlerVars, procVars, otherVars,
                   ghostVars, ageVars>>

\* self.process.wait(timeout=5): returns when the child has exited, raises
\* TimeoutExpired when it has not after 5 s
WaitTerminated(t) ==
    /\ pc[t] = "wait_term"
    /\ \/ /\ target[t] \notin alive
          /\ Sleep(t, KillReturnSleep(t))
          /\ Goto(t, KillReturn(t))
       \/ /\ target[t] \in alive
          /\ timer[t] = 0
          /\ Goto(t, "force_kill")
          /\ UNCHANGED timer
    /\ UNCHANGED <<eventVars, watching, target, handlerVars, procVars,
                   otherVars, ghostVars, ageVars>>

\* (a variant of ForceKill that waits for the child without killing it)
ForceKillWaitOnly(t) ==
    /\ pc[t] = "force_kill"
    /\ process \notin alive
    /\ Sleep(t, KillReturnSleep(t))
    /\ Goto(t, KillReturn(t))
    /\ UNCHANGED <<eventVars, watching, target, handlerVars, procVars,
                   otherVars, ghostVars, ageVars>>

\* except TimeoutExpired: self.process.kill() and self.process.wait()
ForceKill(t) ==
    /\ pc[t] = "force_kill"
    /\ alive' = alive \ {process}
    /\ bound' = bound \ {process}
    /\ Sleep(t, KillReturnSleep(t))
    /\ Goto(t, KillReturn(t))
    /\ UNCHANGED <<eventVars, watching, target, handlerVars, process,
                   retry_count, otherVars, ghostVars, ageVars>>

\* restart_server after time.sleep(2): start_server
Settled ==
    /\ pc["watcher"] = "settle"
    /\ timer["watcher"] = 0
    /\ Goto("watcher", "start_server")
    /\ UNCHANGED <<eventVars, watching, timer, target, handlerVars, procVars,
                   otherVars, ghostVars, ageVars>>

\* (a variant of RetryAllowed that allows one retry too many)
RetryAllowedOffByOne(count) == count <= max_retries

\* handle_restart_failure: `if self.retry_count < self.max_retries'
RetryAllowed(count) == count < max_retries

\* handle_restart_failure, first statement: self.retry_count += 1
CountRestartFailure ==
    /\ pc["watcher"] = "handle_restart_failure"
    /\ retry_count' = retry_count + 1
    /\ Goto("watcher", "retry_test")
    /\ UNCHANGED <<eventVars, watching, timer, target, handlerVars, process,
                   alive, bound, otherVars, ghostVars, ageVars>>

\* (a variant of HandleRestartFailure that keeps the count when it gives up)
HandleRestartFailureKeepsCount ==
    /\ pc["watcher"] = "retry_test"
    /\ IF RetryAllowed(retry_count)
       THEN /\ Sleep("watcher", RETRY_SLEEP)
            /\ Goto("watcher", "restart_server")
       ELSE /\ Goto("watcher", "reset_pending")
            /\ UNCHANGED timer
    /\ UNCHANGED retry_count
    /\ delivered' = IF RetryAllowed(retry_count) \/ "abandon" \notin probe
                     THEN delivered
                     ELSE [delivered EXCEPT !.outcome = "abandoned"]
    /\ UNCHANGED <<eventVars, watching, target, handlerVars, process, alive,
                   bound, otherVars, calls, restarts, burst, ageVars>>

\* handle_restart_failure after the count: the test of the count, which the
\* main thread may have reset meanwhile, then sleep 3 s and restart again,
\* or give up and reset the count
HandleRestartFailure ==
    /\ pc["watcher"] = "retry_test"
    /\ IF RetryAllowed(retry_count)
       THEN /\ Sleep("watcher", RETRY_SLEEP)
            /\ Goto("watcher", "restart_server")
            /\ UNCHANGED retry_count
       ELSE /\ retry_count' = 0
            /\ Goto("watcher", "reset_pending")
            /\ UNCHANGED timer
    /\ delivered' = IF RetryAllowed(retry_count) \/ "abandon" \notin probe
                     THEN delivered
                     ELSE [delivered EXCEPT !.outcome = "abandoned"]
    /\ UNCHANGED <<eventVars, watching, target, handlerVars, process, alive,
                   bound, otherVars, calls, restarts, burst, ageVars>>

(***************************************************************************)
(* hot_reload_server.py: HotReloadHandler, run by the observer thread.     *)
(***************************************************************************)
\* the events the change source produces under the watched directories
HotEvents == {Ev(FALSE, PathStyleCss, "created"), Ev(FALSE, PathCachedPy, "moved")}

\* a file-system change: the observer queues the event (grace: it arrives
\* while restart_server is in the 3 s wait of start_server)
FileChange(ev) ==
    /\ watching
    /\ scheduled # {}
    /\ nEvents < MaxEvents
    /\ queue' = Append(queue, [ev |-> ev, cont |-> arrival_gap < HOT_RELOAD_DELAY,
                               grace |-> pc["watcher"] = "start_wait"])
    /\ nEvents' = nEvents + 1
    /\ arrival_gap' = IF PathEligible("HotReloadHandler", ev) /\ "burst" \in probe
                      THEN 0 ELSE arrival_gap
    /\ UNCHANGED <<watching, threadVars, handlerVars, procVars, otherVars,
                   ghostVars, since_accept>>

\* (a variant of MarkAccepted that leaves last_reload for after the restart)
MarkAcceptedClockLater ==
    /\ UNCHANGED since_reload
    /\ pending_restart' = TRUE

\* _handle_file_change on acceptance: self.last_reload = current_time and
\* self.pending_restart = True, before restart_server is called
MarkAccepted ==
    /\ since_reload' = [since_reload EXCEPT !["HotReloadHandler"] = 0]
    /\ pending_restart' = TRUE

\* on_modified / on_created / on_moved -> _handle_file_change, up to the call
\* of restart_server: the observer thread takes the next event of the queue
HandleFileChange ==
    /\ pc["watcher"] = "idle"
    /\ watching
    /\ queue # <<>>
    /\ LET e == Head(queue)
           out == Dispatch("HotReloadHandler", e.ev,
                           since_reload["HotReloadHandler"], pending_restart)
       IN /\ queue' = Tail(queue)
          /\ delivered' = Delivery("HotReloadHandler", e.ev, out, pending_restart)
          /\ burst' = IF Eligible(out) /\ "burst" \in probe
                      THEN BurstAfter(burst, e.cont, out = "accepted")
                      ELSE burst
          /\ IF out = "accepted"
             THEN /\ MarkAccepted
                  /\ calls' = IF "counts" \in probe
                              THEN [calls EXCEPT !["HotReloadHandler"] = @ + 1]
                              ELSE calls
                  /\ since_accept' = 0
                  /\ Goto("watcher", "restart_server")
             ELSE UNCHANGED <<since_reload, pending_restart, calls, since_accept, pc>>
    /\ UNCHANGED <<nEvents, watching, timer, target, resetTimers, procVars,
                   otherVars, restarts, arrival_gap>>

\* _handle_file_change after restart_server has returned: the reset_pending
\* thread is started, and the handler returns
StartResetThread ==
    /\ pc["watcher"] = "reset_pending"
    /\ resetTimers' = Append(resetTimers, RESET_PENDING_SLEEP)
    /\ target' = [target EXCEPT !["watcher"] = 0]
    /\ Goto("watcher", "idle")
    /\ UNCHANGED <<eventVars, watching, timer, since_reload, pending_restart,
                   procVars, otherVars, ghostVars, ageVars>>

\* (a variant of ResetPending that ends without clearing the flag)
ResetPendingKeepsFlag ==
    \E i \in 1..Len(resetTimers) :
        /\ resetTimers[i] = 0
        /\ resetTimers' = RemoveAt(resetTimers, i)
        /\ UNCHANGED <<eventVars, watching, threadVars, since_reload,
                       pending_restart, procVars, otherVars, ghostVars, ageVars>>

\* reset_pending, after its sleep of 1 s
ResetPending ==
    \E i \in 1..Len(resetTimers) :
        /\ resetTimers[i] = 0
        /\ resetTimers' = RemoveAt(resetTimers, i)
        /\ pending_restart' = FALSE
        /\ UNCHANGED <<eventVars, watching, threadVars, since_reload, procVars,
                       otherVars, ghostVars, ageVars>>

(***************************************************************************)
(* hot_reload_server.py: main(), after start_file_watcher.                 *)
(***************************************************************************)
\* KeyboardInterrupt anywhere inside the try block of main()
Interrupt ==
    /\ pc["main"] \in {"start_server", "popen", "start_wait", "serving"}
    /\ Goto("main", "finally")
    /\ Sleep("main", 0)
    /\ exit_status' = "0"
    /\ UNCHANGED <<eventVars, watching, target, handlerVars, procVars,
                   sys_modules, probe, watchVars, main_starts, stops, ghostVars,
                   ageVars>>

\* finally: observer.stop()
ObserverStop ==
    /\ pc["main"] = "finally"
    /\ watching' = FALSE
    /\ Goto("main", "join")
    /\ UNCHANGED <<eventVars, timer, target, handlerVars, procVars,
                   otherVars, ghostVars, ageVars>>

\* observer.join() returns once the observer thread has left the handler;
\* stop_server then calls kill_current_process
ObserverJoin ==
    /\ pc["main"] = "join"
    /\ pc["watcher"] = "idle"
    /\ Goto("main", "kill_current_process")
    /\ UNCHANGED <<eventVars, watching, timer, target, handlerVars, procVars,
                   otherVars, ghostVars, ageVars>>

\* stop_server returns ('Server stopped'), and main() with it
StopServerReturn ==
    /\ pc["main"] = "stop_server_return"
    /\ stops' = stops + 1
    /\ Goto("main", "exit")
    /\ UNCHANGED <<eventVars, watching, timer, target, handlerVars, procVars,
                   sys_modules, probe, watchVars, exit_status, main_starts, ghostVars,
                   ageVars>>

(***************************************************************************)
(* The child processes (demo_dev.py).                                      *)
(***************************************************************************)
\* (a variant of ChildExit in which the manager replaces a child that exits)
ChildExitRelaunches(p) ==
    /\ p \in alive
    /\ \E q \in Pids \ alive :
          /\ alive' = (alive \ {p}) \cup {q}
          /\ process' = q
    /\ bound' = bound \ {p}
    /\ UNCHANGED <<eventVars, watching, threadVars, handlerVars,
                   retry_count, otherVars, ghostVars, ageVars>>

\* a running child exits: by itself, or because it was sent SIGTERM
ChildExit(p) ==
    /\ p \in alive
    /\ alive' = alive \ {p}
    /\ bound' = bound \ {p}
    /\ UNCHANGED <<eventVars, watching, threadVars, handlerVars, process,
                   retry_count, otherVars, ghostVars, ageVars>>

\* a running child binds the port, which no other process holds
ChildBind(p) ==
    /\ p \in alive
    /\ bound = {}
    /\ bound' = {p}
    /\ UNCHANGED <<eventVars, watching, threadVars, handlerVars, process,
                   alive, retry_count, otherVars, ghostVars, ageVars>>

InitHot ==
    /\ InitCommon
    /\ watching = FALSE
    /\ exists = HotWatchDirs
    /\ scheduled = {}
    /\ pc = [t \in Threads |-> IF t = "main" THEN "start_file_watcher" ELSE "idle"]

Init == InitHot /\ probe = {}

MainStep ==
    \/ StartFileWatcher
    \/ KillProcessOnPort("main")
    \/ Popen("main")
    \/ StartServerPoll("main")
    \/ ObserverStop
    \/ ObserverJoin
    \/ KillCurrentProcess("main")
    \/ WaitTerminated("main")
    \/ ForceKill("main")
    \/ StopServerReturn

WatcherStep ==
    \/ HandleFileChange
    \/ RestartServer
    \/ KillCurrentProcess("watcher")
    \/ WaitTerminated("watcher")
    \/ ForceKill("watcher")
    \/ Settled
    \/ KillProcessOnPort("watcher")
    \/ Popen("watcher")
    \/ StartServerPoll("watcher")
    \/ CountRestartFailure
    \/ HandleRestartFailure
    \/ StartResetThread

Environment ==
    \/ \E ev \in HotEvents : FileChange(ev)
    \/ \E p \in Pids : ChildExit(p)
    \/ \E p \in Pids : ChildBind(p)
    \/ Interrupt

Next == MainStep \/ WatcherStep \/ ResetPending \/ Environment \/ Tick

Spec == Init /\ [][Next]_vars

\* the threads are scheduled and time passes: a runnable observer thread
\* eventually takes its step, and every sleep runs out
FairSpec == Spec /\ WF_vars(WatcherStep) /\ WF_vars(Tick)

\* the same program with the counts of restarts and accepted events recorded
InitCounts == InitHot /\ probe = {"counts"}
SpecCounts == InitCounts /\ [][Next]_vars

\* the same program with abandoned restarts recorded
InitAbandon == InitHot /\ probe = {"abandon"}
SpecAbandon == InitAbandon /\ [][Next]_vars

\* the same program with the bursts of arriving events recorded
InitBurst == InitHot /\ probe = {"burst"}
SpecBurst == InitBurst /\ [][Next]_vars

(***************************************************************************)
(* Properties of hot_reload_server.py.                                     *)
(***************************************************************************)
\* from acceptance of an event until _handle_file_change returns
InHandler == pc["watcher"] # "idle"

\* C1: at most one child process launched by GradioServerManager is alive in
\* every reachable state, and no launched process is alive that self.process
\* does not refer to, whatever the interleaving of main() and the observer.
C1_AtMostOneChild ==
    /\ Cardinality(alive) <= 1
    /\ alive \subseteq {process}

\* C2: within restart_server the new child is launched only when the child
\* that kill_current_process worked on is no longer alive, on every path of
\* kill_current_process.
C2_TerminateThenStart ==
    pc["watcher"] = "start_wait" => target["watcher"] \notin alive

\* C3: every burst of eligible events (each arriving less than reload_delay
\* after the one before) triggers exactly one restart, and its first event
\* triggers it.
C3_OneRestartPerBurst ==
    burst.size > 0 => (burst.acc = 1 /\ burst.first)

\* C5 as stated: the executions of restart_server, those re-entered through
\* handle_restart_failure included, never outnumber the accepted events.
C5_RestartsAtMostAccepted == restarts <= calls["HotReloadHandler"]

\* C5, amended: the executions of restart_server, those re-entered through
\* handle_restart_failure included, are at least one for each accepted event
\* whose restart began, and at most max_retries for each accepted event plus
\* the max_retries re-entries that the main thread's own start_server gives
\* back when it resets retry_count in the middle of a retry sequence.
C5_RestartsAtMostRetriesPerAccepted ==
    /\ restarts <= max_retries * calls["HotReloadHandler"] + max_retries
    /\ restarts >= calls["HotReloadHandler"]
                      - (IF pc["watcher"] = "restart_server" THEN 1 ELSE 0)

C5_Witness ==
    /\ calls["HotReloadHandler"] = 1
    /\ restarts = 2 * max_retries
    /\ pc["watcher"] = "idle"

\* the observer thread handles the event at the head of the queue
HandlesEvent == queue # <<>> /\ queue' = Tail(queue)

\* C8: an eligible event handled while pending_restart is true is logged as an
\* additional change and dropped: the handler returns without entering
\* restart_server and changes neither the flag nor the debounce clock.
C8_PendingDropsEvent ==
    [][(HandlesEvent /\ pending_restart
            /\ PathEligible("HotReloadHandler", Head(queue).ev))
        => /\ delivered'.outcome = "additional"
           /\ pc'["watcher"] = "idle"
           /\ UNCHANGED <<since_reload, pending_restart, resetTimers, procVars>>]_vars

C8_Witness ==
    /\ delivered.outcome = "additional"
    /\ delivered.pending
    /\ pc["watcher"] = "idle"

\* C9: from the acceptance of an event until the handler returns, that is
\* during the whole restart, last_reload holds the acceptance time.
C9_ClockSetBeforeRestart ==
    InHandler => since_reload["HotReloadHandler"] = since_accept

C9_Witness ==
    /\ pc["watcher"] = "settle"
    /\ since_accept = TickLen
    /\ since_reload["HotReloadHandler"] = TickLen

\* the timed wait of kill_current_process, called from restart_server, has
\* run out and the child has not exited
WaitTimedOut ==
    /\ pc["watcher"] = "wait_term"
    /\ timer["watcher"] = 0
    /\ target["watcher"] \in alive

\* C10: when the child has not exited within the timeout of the graceful
\* wait, restart_server still returns: the handler is left.
C10_RestartCompletesAfterTimeout == WaitTimedOut ~> (pc["watcher"] = "idle")

C10_Witness ==
    /\ pc["watcher"] = "force_kill"
    /\ process \in alive

(***************************************************************************)
(* The five handlers by themselves: the observer delivers any event to any *)
(* handler in any state of its debounce clock and of the pending flag.     *)
(* What the accepted event sets off (restart_server, restart_callback) is  *)
(* taken to return; hot_reload_server's is modelled in full above.         *)
(***************************************************************************)
\* the module the handler re-imports: start_file_watcher("demo_v5", ...) in
\* dev_server.py, PythonReloadHandler("demo_dev") in dev_server_advanced.py
app_module(h) == IF h = "GradioReloadHandler" THEN "demo_v5" ELSE "demo_dev"

\* the handlers that re-import the application module
ReloadHandlers == {"GradioReloadHandler", "PythonReloadHandler"}

\* (a variant of Reimport in which a failed import leaves the old module)
ReimportKeepsOld(modules, m, imported) ==
    IF imported THEN modules \cup {m} ELSE modules

\* `if self.app_module in sys.modules: del sys.modules[self.app_module]' and
\* `__import__(self.app_module)': the import adds the module when it
\* succeeds, and leaves it out when it raises
Reimport(modules, m, imported) ==
    IF imported THEN (modules \ {m}) \cup {m} ELSE modules \ {m}

\* (a variant of Deliver in which an event dropped by the debounce test or by
\* the pending flag restarts the debounce window)
DeliverExtendsWindow(h, ev) ==
    /\ nEvents < MaxEvents
    /\ nEvents' = nEvents + 1
    /\ LET out == Dispatch(h, ev, since_reload[h], pending_restart)
       IN IF out = "accepted"
          THEN /\ calls' = [calls EXCEPT ![h] = @ + 1]
               /\ IF h = "HotReloadHandler"
                  THEN /\ MarkAccepted
                       /\ resetTimers' = Append(resetTimers, RESET_PENDING_SLEEP)
                  ELSE /\ since_reload' = [since_reload EXCEPT ![h] = 0]
                       /\ UNCHANGED <<pending_restart, resetTimers>>
               /\ IF h \in ReloadHandlers
                  THEN \E imported \in BOOLEAN :
                         /\ sys_modules' = Reimport(sys_modules, app_module(h), imported)
                         /\ delivered' = Delivery(h, ev, IF imported THEN out ELSE "reload_failed",
                                                  pending_restart)
                  ELSE /\ delivered' = Delivery(h, ev, out, pending_restart)
                       /\ UNCHANGED sys_modules
          ELSE /\ delivered' = Delivery(h, ev, out, pending_restart)
               /\ since_reload' = IF out \in {"debounced", "additional"}
                                 THEN [since_reload EXCEPT ![h] = 0]
                                 ELSE since_reload
               /\ UNCHANGED <<pending_restart, resetTimers, calls, sys_modules>>
    /\ UNCHANGED <<queue, watching, threadVars, procVars, restarts, burst,
                   ageVars, probe, watchVars, exit_status, main_starts, stops>>

\* the handler's method runs for the event, from the filter to its return;
\* a reload whose import raised is recorded as outcome "reload_failed"
Deliver(h, ev) ==
    /\ nEvents < MaxEvents
    /\ nEvents' = nEvents + 1
    /\ LET out == Dispatch(h, ev, since_reload[h], pending_restart)
       IN IF out = "accepted"
          THEN /\ calls' = [calls EXCEPT ![h] = @ + 1]
               /\ IF h = "HotReloadHandler"
                  THEN /\ MarkAccepted
                       /\ resetTimers' = Append(resetTimers, RESET_PENDING_SLEEP)
                  ELSE /\ since_reload' = [since_reload EXCEPT ![h] = 0]
                       /\ UNCHANGED <<pending_restart, resetTimers>>
               /\ IF h \in ReloadHandlers
                  THEN \E imported \in BOOLEAN :
                         /\ sys_modules' = Reimport(sys_modules, app_module(h), imported)
                         /\ delivered' = Delivery(h, ev, IF imported THEN out ELSE "reload_failed",
                                                  pending_restart)
                  ELSE /\ delivered' = Delivery(h, ev, out, pending_restart)
                       /\ UNCHANGED sys_modules
          ELSE /\ delivered' = Delivery(h, ev, out, pending_restart)
               /\ UNCHANGED <<handlerVars, calls, sys_modules>>
    /\ UNCHANGED <<queue, watching, threadVars, procVars, restarts, burst,
                   ageVars, probe, watchVars, exit_status, main_starts, stops>>

InitHandlers ==
    /\ InitCommon
    /\ watching = TRUE
    /\ exists = HotWatchDirs
    /\ scheduled = HotWatchDirs
    /\ pc = [t \in Threads |-> "idle"]
    /\ probe = {"counts", "abandon"}

NextHandlers ==
    \/ \E h \in Handlers, ev \in Events : Deliver(h, ev)
    \/ ResetPending
    \/ Tick

SpecHandlers == InitHandlers /\ [][NextHandlers]_vars

(***************************************************************************)
(* Properties of the handlers' filters.                                    *)
(***************************************************************************)
\* a handler has run for an event
Delivers == nEvents' = nEvents + 1

\* C6: an event with is_directory true is ignored by each of the five
\* handlers: no restart or reload is triggered and no handler state changes,
\* whatever the path, the kind of event and the debounce clock.
C6_DirectoryEventsIgnored ==
    [][(Delivers /\ delivered'.ev.is_directory)
        => UNCHANGED <<calls, handlerVars, sys_modules, procVars>>]_vars

C6_Witness ==
    /\ delivered.handler = "PythonReloadHandler"
    /\ delivered.ev = Ev(TRUE, PathAppPy, "modified")
    /\ delivered.outcome = "directory"
    /\ since_reload["PythonReloadHandler"] = AgeCap

\* the handlers that restart the server process
RestartHandlers == {"HotReloadHandler", "SimpleFileHandler"}

\* the path lacks a recognised extension, or names a compiled artifact
IneligiblePath(p) ==
    \/ ~(EndsWith(p, DotPy) \/ EndsWith(p, DotCss))
    \/ Contains(p, PyCache)
    \/ EndsWith(p, DotPyc)

\* C7: an event whose path does not end in .py or .css, or contains
\* __pycache__, or ends in .pyc, never triggers a restart, whatever its kind,
\* the debounce clock and the pending flag.
C7_IneligiblePathsIgnored ==
    [][(Delivers /\ delivered'.handler \in RestartHandlers
            /\ IneligiblePath(delivered'.ev.src_path))
        => UNCHANGED <<calls, handlerVars, procVars>>]_vars

C7_Witness ==
    /\ delivered.handler = "HotReloadHandler"
    /\ delivered.ev = Ev(FALSE, PathCachedPy, "created")
    /\ delivered.outcome = "excluded"
    /\ ~delivered.pending
    /\ since_reload["HotReloadHandler"] = AgeCap

(***************************************************************************)
(* simple_dev.py: SimpleDevServer and main(), with SimpleFileHandler run   *)
(* by the observer thread.  restart_server has no pending flag and waits   *)
(* for the old child without a timeout.                                    *)
(***************************************************************************)
\* the events the change source produces under demo-editing/
SimpleEvents == {Ev(FALSE, PathAppPy, "modified"), Ev(FALSE, PathStyleCss, "modified")}

\* a file-system change: the observer queues the event
SimpleFileChange(ev) ==
    /\ watching
    /\ nEvents < MaxSimpleEvents
    /\ queue' = Append(queue, [ev |-> ev, cont |-> arrival_gap < SIMPLE_DEBOUNCE])
    /\ nEvents' = nEvents + 1
    /\ arrival_gap' = IF PathEligible("SimpleFileHandler", ev) THEN 0 ELSE arrival_gap
    /\ UNCHANGED <<watching, threadVars, handlerVars, procVars, otherVars,
                   ghostVars, since_accept>>

\* main(): observer.schedule and observer.start, outside the try block and
\* without a test of the directory: when it does not exist, observer.start()
\* raises on the platforms whose emitter opens the directory at once, and
\* main() ends with the traceback; on the others the observer starts
SimpleObserverStart ==
    /\ pc["main"] = "s_observer_start"
    /\ \/ /\ scheduled' = SimpleWatchDirs
          /\ watching' = TRUE
          /\ Goto("main", "s_popen")
          /\ UNCHANGED exit_status
       \/ /\ ~(SimpleWatchDirs \subseteq exists)
          /\ exit_status' = "1"
          /\ Goto("main", "exit")
          /\ UNCHANGED <<scheduled, watching>>
    /\ UNCHANGED <<eventVars, timer, target, handlerVars, procVars,
                   sys_modules, probe, main_starts, stops, exists,
                   ghostVars, ageVars>>

\* where start_server returns to: main() tests the result, the handler
\* ignores what restart_callback returns
SimpleStartReturn(t, ok) ==
    IF t = "main" THEN (IF ok THEN "s_serving" ELSE "s_join") ELSE "idle"

\* start_server: subprocess.Popen and the assignment to self.process, then
\* the sleep of 5 s; Popen may raise, which start_server turns into False
SimplePopen(t) ==
    /\ pc[t] = "s_popen"
    /\ timer[t] = 0
    /\ \/ /\ FreePids # {}
          /\ LET p == CHOOSE q \in FreePids : \A r \in FreePids : q <= r
             IN /\ alive' = alive \cup {p}
                /\ process' = p
          /\ Sleep(t, SIMPLE_START_WAIT)
          /\ Goto(t, "s_start_wait")
          /\ UNCHANGED exit_status
       \/ /\ Goto(t, SimpleStartReturn(t, FALSE))
          /\ exit_status' = ReturnStatus(t, FALSE)
          /\ UNCHANGED <<alive, process, timer>>
    /\ main_starts' = IF t = "main" THEN main_starts + 1 ELSE main_starts
    /\ UNCHANGED <<eventVars, watching, target, handlerVars, bound,
                   retry_count, sys_modules, probe, watchVars, stops, ghostVars,
                   ageVars>>

\* start_server after its sleep: self.process.poll() decides the result
SimpleStartPoll(t) ==
    /\ pc[t] = "s_start_wait"
    /\ timer[t] = 0
    /\ Goto(t, SimpleStartReturn(t, process \in alive))
    /\ exit_status' = ReturnStatus(t, process \in alive)
    /\ UNCHANGED <<eventVars, watching, timer, target, handlerVars, procVars,
                   sys_modules, probe, watchVars, main_starts, stops, ghostVars,
                   ageVars>>

\* SimpleFileHandler.on_modified, up to the call of restart_callback: the
\* observer thread takes the next event of the queue
SimpleHandle ==
    /\ pc["watcher"] = "idle"
    /\ watching
    /\ queue # <<>>
    /\ LET e == Head(queue)
           out == Dispatch("SimpleFileHandler", e.ev,
                           since_reload["SimpleFileHandler"], FALSE)
       IN /\ queue' = Tail(queue)
          /\ delivered' = Delivery("SimpleFileHandler", e.ev, out, FALSE)
          /\ burst' = IF Eligible(out)
                      THEN BurstAfter(burst, e.cont, out = "accepted")
                      ELSE burst
          /\ IF out = "accepted"
             THEN /\ since_reload' = [since_reload EXCEPT !["SimpleFileHandler"] = 0]
                  /\ calls' = [calls EXCEPT !["SimpleFileHandler"] = @ + 1]
                  /\ Goto("watcher", "s_restart_server")
             ELSE UNCHANGED <<since_reload, calls, pc>>
    /\ UNCHANGED <<nEvents, watching, timer, target, pending_restart,
                   resetTimers, procVars, otherVars, restarts, ageVars>>

\* restart_server: `if self.process:' terminate() and wait(), else straight
\* to start_server; terminate() may raise, and nothing catches that before
\* the observer thread's run loop, which it ends
SimpleRestartServer ==
    /\ pc["watcher"] = "s_restart_server"
    /\ restarts' = restarts + 1
    /\ target' = [target EXCEPT !["watcher"] = process]
    /\ \/ Goto("watcher", IF process # 0 THEN "s_wait" ELSE "s_popen")
       \/ /\ process \in alive
          /\ Goto("watcher", "crashed")
    /\ UNCHANGED <<eventVars, watching, timer, handlerVars, procVars,
                   otherVars, calls, delivered, burst, ageVars>>

\* self.process.wait(), without a timeout, returns once the child has
\* exited; restart_server then sleeps 2 s
SimpleWait ==
    /\ pc["watcher"] = "s_wait"
    /\ target["watcher"] \notin alive
    /\ Sleep("watcher", SIMPLE_SETTLE)
    /\ target' = [target EXCEPT !["watcher"] = 0]
    /\ Goto("watcher", "s_popen")
    /\ UNCHANGED <<eventVars, watching, handlerVars, procVars, otherVars,
                   ghostVars, ageVars>>

\* KeyboardInterrupt inside the try block of main(): observer.stop()
SimpleInterrupt ==
    /\ pc["main"] \in {"s_popen", "s_start_wait", "s_serving"}
    /\ watching' = FALSE
    /\ Sleep("main", 0)
    /\ Goto("main", "s_stop_server")
    /\ exit_status' = "0"
    /\ UNCHANGED <<eventVars, target, handlerVars, procVars, sys_modules,
                   probe, watchVars, main_starts, stops, ghostVars, ageVars>>

\* stop_server: `if self.process:' terminate() and wait(); terminate() may
\* raise, which leaves main() through its finally block as an error
SimpleStopServer ==
    /\ pc["main"] = "s_stop_server"
    /\ target' = [target EXCEPT !["main"] = process]
    /\ \/ /\ Goto("main", IF process # 0 THEN "s_stop_wait" ELSE "s_join")
          /\ stops' = IF process # 0 THEN stops ELSE stops + 1
          /\ UNCHANGED exit_status
       \/ /\ process \in alive
          /\ Goto("main", "s_join")
          /\ exit_status' = "1"
          /\ UNCHANGED stops
    /\ UNCHANGED <<eventVars, watching, timer, handlerVars, procVars,
                   sys_modules, probe, watchVars, main_starts, ghostVars, ageVars>>

\* stop_server: self.process.wait() returns once the child has exited
SimpleStopWait ==
    /\ pc["main"] = "s_stop_wait"
    /\ target["main"] \notin alive
    /\ target' = [target EXCEPT !["main"] = 0]
    /\ stops' = stops + 1
    /\ Goto("main", "s_join")
    /\ UNCHANGED <<eventVars, watching, timer, handlerVars, procVars,
                   sys_modules, probe, watchVars, exit_status, main_starts, ghostVars,
                   ageVars>>

\* finally: observer.join() returns once the observer thread has ended: it
\* was stopped and has left the handler, or an exception ended it
SimpleJoin ==
    /\ pc["main"] = "s_join"
    /\ \/ ~watching /\ pc["watcher"] = "idle"
       \/ pc["watcher"] = "crashed"
    /\ Goto("main", "exit")
    /\ UNCHANGED <<eventVars, watching, timer, target, handlerVars, procVars,
                   otherVars, ghostVars, ageVars>>

InitSimple ==
    /\ InitCommon
    /\ watching = FALSE
    /\ exists = HotWatchDirs
    /\ scheduled = {}
    /\ pc = [t \in Threads |-> IF t = "main" THEN "s_observer_start" ELSE "idle"]
    /\ probe = {"counts", "burst"}

NextSimple ==
    \/ SimpleObserverStart
    \/ \E t \in Threads : SimplePopen(t)
    \/ \E t \in Threads : SimpleStartPoll(t)
    \/ SimpleHandle
    \/ SimpleRestartServer
    \/ SimpleWait
    \/ SimpleInterrupt
    \/ SimpleStopServer
    \/ SimpleStopWait
    \/ SimpleJoin
    \/ \E ev \in SimpleEvents : SimpleFileChange(ev)
    \/ \E p \in Pids : ChildExit(p)
    \/ Tick

SpecSimple == InitSimple /\ [][NextSimple]_vars

(***************************************************************************)
(* Properties of simple_dev.py.                                            *)
(***************************************************************************)
\* C4: three eligible modified events that arrive within the debounce
\* interval of 1.0 s (as at 0.0 s, 0.3 s and 0.8 s) produce exactly one call
\* of restart_server, although the later ones are handled only after the
\* restart for the first has returned.
C4_OneRestartForThreeEvents ==
    burst.size = MaxSimpleEvents => calls["SimpleFileHandler"] = 1


(***************************************************************************)
(* Properties of the retry policy and of shutdown (hot_reload_server.py).  *)
(***************************************************************************)
\* handle_restart_failure gives up: 'Max retries reached'
Abandons ==
    /\ pc["watcher"] = "retry_test"
    /\ pc'["watcher"] = "reset_pending"

\* C11: when the launches of a restart have failed max_retries times,
\* handle_restart_failure gives up after exactly max_retries executions of
\* restart_server for that accepted event (no fourth attempt), and no child
\* process is running when it gives up.
C11_AbandonAfterThreeFailures ==
    [][Abandons =>
        /\ alive' = {}
        /\ calls["HotReloadHandler"] = 1 => restarts = max_retries]_vars


\* C12: a failed initial launch is retried: main() reports the failure
\* (returns 1) only after it has executed start_server more than once, and
\* when it has returned 1 no child process is running.
C12_InitialLaunchRetried ==
    /\ exit_status = "1" => main_starts >= 2
    /\ (exit_status = "1" /\ pc["main"] = "exit") => alive = {}


\* C13: after a restart was abandoned the observer thread still handles
\* events: an eligible event handled once pending_restart is cleared and
\* reload_delay has passed is accepted and enters restart_server with
\* retry_count at 0.
C13_FreshRestartAfterAbandon ==
    [][(HandlesEvent /\ delivered.outcome = "abandoned" /\ ~pending_restart
            /\ since_reload["HotReloadHandler"] >= HOT_RELOAD_DELAY
            /\ PathEligible("HotReloadHandler", Head(queue).ev))
        => /\ delivered'.outcome = "accepted"
           /\ pc'["watcher"] = "restart_server"
           /\ pending_restart'
           /\ retry_count' = 0]_vars

C13_Witness ==
    /\ delivered.outcome = "accepted"
    /\ delivered.prev = "abandoned"
    /\ pc["watcher"] = "restart_server"
    /\ retry_count = 0
    /\ alive = {}


(***************************************************************************)
(* stop_server by itself: called twice in succession on a server manager   *)
(* that has launched no child, whose child has exited, or whose child is   *)
(* running (GradioServerManager and SimpleDevServer).                      *)
(***************************************************************************)
\* number of calls of stop_server made in succession
StopCalls == 2

\* stop_server is called again after it has returned
StopServerAgain ==
    /\ pc["main"] = "exit"
    /\ stops < StopCalls
    /\ Goto("main", "kill_current_process")
    /\ UNCHANGED <<eventVars, watching, timer, target, handlerVars, procVars,
                   otherVars, ghostVars, ageVars>>

\* SimpleDevServer.stop_server is called again after it has returned
SimpleStopServerAgain ==
    /\ pc["main"] = "s_join"
    /\ exit_status = "running"
    /\ stops < StopCalls
    /\ Goto("main", "s_stop_server")
    /\ UNCHANGED <<eventVars, watching, timer, target, handlerVars, procVars,
                   otherVars, ghostVars, ageVars>>

InitStop ==
    /\ InitHandlers0
    /\ watching = FALSE
    /\ exists = HotWatchDirs
    /\ scheduled = {}
    /\ probe = {}
    /\ process \in {0} \cup Pids
    /\ alive \in SUBSET (Pids \cap {process})
    /\ bound \in SUBSET alive
    /\ pc \in {[t \in Threads |-> IF t = "main" THEN l ELSE "idle"] :
                 l \in {"kill_current_process", "s_stop_server"}}

NextStop ==
    \/ KillCurrentProcess("main")
    \/ WaitTerminated("main")
    \/ ForceKill("main")
    \/ StopServerReturn
    \/ StopServerAgain
    \/ SimpleStopServer
    \/ SimpleStopWait
    \/ SimpleStopServerAgain
    \/ \E p \in Pids : ChildExit(p)
    \/ Tick

SpecStop == InitStop /\ [][NextStop]_vars

\* a call of stop_server has returned and none is in progress
StopReturned == stops >= 1 /\ pc["main"] \in {"exit", "s_join"}

\* C14: stop_server raises no error and leaves no child process running,
\* whether a child was never launched, has exited or is running; called a
\* second time it changes no state of the server manager.
C14_StopIdempotent ==
    /\ [](exit_status # "1")
    /\ [](StopReturned => alive = {})
    /\ [][(stops >= 1 /\ pc'["main"] # pc["main"]) => UNCHANGED procVars]_vars


(***************************************************************************)
(* C15: hot_reload_server, shutdown.  Once main() has run its cleanup      *)
(* (observer.stop(), observer.join(), stop_server()) and returns, none of  *)
(* the children the manager launched is running, whatever the two threads  *)
(* were doing when the interrupt arrived.                                  *)
(***************************************************************************)
C15_ShutdownLeavesNoChild ==
    pc["main"] = "exit" => alive = {}


(***************************************************************************)
(* C16: simple_dev, shutdown.  Once main() has run observer.stop(),        *)
(* server.stop_server() and observer.join() and returns, none of the       *)
(* children the server launched is running, whatever the observer thread   *)
(* was doing when the interrupt arrived.                                   *)
(***************************************************************************)
C16_SimpleShutdownLeavesNoChild ==
    (pc["main"] = "exit" /\ exit_status = "0") => alive = {}


(***************************************************************************)
(* C17: hot_reload_server.  An eligible event that arrived while the       *)
(* observer thread was in the 3 s startup wait of a restart is, when the   *)
(* handler receives it, accepted as a fresh event: the handler calls       *)
(* restart_server for it.                                                  *)
(***************************************************************************)
C17_GraceWindowEventRestarts ==
    [][(HandlesEvent /\ Head(queue).grace
            /\ PathEligible("HotReloadHandler", Head(queue).ev))
        => pc'["watcher"] = "restart_server"]_vars


(***************************************************************************)
(* simple_dev.py under a fair scheduler: each thread that can take a step  *)
(* eventually takes one, and time passes.  Nothing is assumed of the       *)
(* environment (file changes, the interrupt, the exit of a child).         *)
(***************************************************************************)
SimpleMainStep ==
    \/ SimpleObserverStart
    \/ SimplePopen("main")
    \/ SimpleStartPoll("main")
    \/ SimpleStopServer
    \/ SimpleStopWait
    \/ SimpleJoin

SimpleWatcherStep ==
    \/ SimpleHandle
    \/ SimpleRestartServer
    \/ SimpleWait
    \/ SimplePopen("watcher")
    \/ SimpleStartPoll("watcher")

FairSpecSimple ==
    SpecSimple /\ WF_vars(SimpleMainStep) /\ WF_vars(SimpleWatcherStep) /\ WF_vars(Tick)

(***************************************************************************)
(* C18: the launcher's exit status.  When the initial start has failed,    *)
(* main() does return (with status 1, as after an interrupt it returns     *)
(* with status 0), and no status is returned before the cleanup has        *)
(* stopped the observer.                                                   *)
(***************************************************************************)
C18_ExitStatusAfterCleanup ==
    /\ [](pc["main"] = "exit" => (exit_status \in {"0", "1"} /\ ~watching))
    /\ (exit_status = "1") ~> (pc["main"] = "exit")


(***************************************************************************)
(* C19: no failure of launching, terminating or waiting for the child      *)
(* leaves restart_server as an exception: the observer thread is never     *)
(* ended by an exception raised inside the change handler.                 *)
(***************************************************************************)
C19_NoExceptionReachesWatcher ==
    pc["watcher"] # "crashed"


(***************************************************************************)
(* C20: simple_dev, restart_server.  Once the current child has been sent  *)
(* the terminate signal and restart_server waits for it, restart_server    *)
(* eventually returns to the handler, even when the child never exits by   *)
(* itself (the wait is bounded and ends in a forced kill).                 *)
(***************************************************************************)
C20_SimpleRestartReturns ==
    (pc["watcher"] = "s_wait") ~> (pc["watcher"] = "idle")


(***************************************************************************)
(* C21: hot_reload_server, the lifecycle.  Abandonment is terminal: once   *)
(* handle_restart_failure has given up ('Max retries reached'), the        *)
(* observer thread makes no further launch attempt (no Popen of            *)
(* start_server), whatever events follow.                                  *)
(***************************************************************************)
AfterAbandon ==
    delivered.outcome = "abandoned" \/ delivered.prev = "abandoned"

LaunchAttempt(t) ==
    pc[t] = "popen" /\ pc'[t] # "popen"

C21_AbandonedIsTerminal ==
    [][AfterAbandon => ~LaunchAttempt("watcher")]_vars


(***************************************************************************)
(* C22: an event that HotReloadHandler does not accept (a directory, an    *)
(* ineligible extension, an excluded path, inside the debounce window, or  *)
(* dropped because a restart is pending) leaves last_reload and            *)
(* pending_restart as they were, starts no reset thread and does not touch *)
(* the managed process: the debounce window is not extended.               *)
(***************************************************************************)
C22_DroppedEventChangesNothing ==
    [][(Delivers /\ delivered'.handler = "HotReloadHandler"
            /\ delivered'.outcome # "accepted")
        => UNCHANGED <<since_reload, pending_restart, resetTimers, calls, procVars>>]_vars

C22_Witness ==
    /\ delivered.handler = "HotReloadHandler"
    /\ delivered.outcome = "debounced"
    /\ calls["HotReloadHandler"] = 1
    /\ since_reload["HotReloadHandler"] = TickLen
    /\ pending_restart


(***************************************************************************)
(* C23: hot_reload_server, the restart-in-flight flag.  While the observer *)
(* thread is inside the handler for an accepted event (restart_server and  *)
(* its retries, up to the start of the reset thread) pending_restart is    *)
(* true and no reset_pending thread of an earlier restart is still waiting *)
(* to clear it, under every interleaving with the reset threads.           *)
(***************************************************************************)
C23_PendingHeldDuringRestart ==
    InHandler => (pending_restart /\ resetTimers = <<>>)

C23_Witness ==
    /\ calls["HotReloadHandler"] = 2
    /\ pc["watcher"] = "start_wait"
    /\ pending_restart
    /\ resetTimers = <<>>


(***************************************************************************)
(* C24: start_server clears the port before it launches.  At the moment    *)
(* Popen spawns the new child, no process bound to the port is alive:      *)
(* kill_process_on_port has killed every one of them.                      *)
(***************************************************************************)
Spawns(t) ==
    pc[t] = "popen" /\ pc'[t] = "start_wait"

C24_PortClearAtSpawn ==
    [][(\E t \in Threads : Spawns(t)) => bound = {}]_vars


(***************************************************************************)
(* hot_reload_server.py with the observer thread and the reset_pending     *)
(* threads scheduled fairly and time passing; nothing is assumed of the    *)
(* main thread or of the environment.                                      *)
(***************************************************************************)
FairSpecReset == FairSpec /\ WF_vars(ResetPending)

(***************************************************************************)
(* C25: every accepted change is eventually followed by the completion of  *)
(* its restart without anyone intervening: the handler returns (with a new *)
(* child launched and found running, or after 'Max retries reached') and   *)
(* pending_restart is false again, so that later changes can be accepted.  *)
(***************************************************************************)
C25_AcceptedChangeCompletes ==
    (pc["watcher"] = "restart_server") ~> (pc["watcher"] = "idle" /\ ~pending_restart)

C25_Witness ==
    /\ delivered.outcome = "accepted"
    /\ pc["watcher"] = "idle"
    /\ ~pending_restart
    /\ resetTimers = <<>>
    /\ process \in alive


(***************************************************************************)
(* The start of the two launchers by themselves: main() of                 *)
(* hot_reload_server or of simple_dev, from its first statement to the     *)
(* result of the initial start_server, with any of the watch directories   *)
(* missing.                                                                *)
(***************************************************************************)
InitStartup ==
    /\ InitCommon
    /\ watching = FALSE
    /\ probe = {}
    /\ exists \in SUBSET HotWatchDirs
    /\ scheduled = {}
    /\ pc \in {[t \in Threads |-> IF t = "main" THEN l ELSE "idle"] :
                 l \in {"start_file_watcher", "s_observer_start"}}

NextStartup ==
    \/ StartFileWatcher
    \/ KillProcessOnPort("main")
    \/ Popen("main")
    \/ StartServerPoll("main")
    \/ SimpleObserverStart
    \/ SimplePopen("main")
    \/ SimpleStartPoll("main")
    \/ \E p \in Pids : ChildExit(p)
    \/ \E p \in Pids : ChildBind(p)
    \/ Tick

SpecStartup == InitStartup /\ [][NextStartup]_vars

(***************************************************************************)
(* C26: the watch roots are registered before the managed process is       *)
(* launched.  When main() enters its first start_server, the observer has  *)
(* been started, and in hot_reload_server it has been scheduled for        *)
(* exactly the watch directories that exist: a missing one is skipped and  *)
(* the launch goes ahead.                                                  *)
(***************************************************************************)
C26_WatchBeforeLaunch ==
    [][(main_starts' = main_starts + 1)
        => /\ watching
           /\ pc["main"] = "start_server"
                => scheduled = {d \in HotWatchDirs : d \in exists}]_vars

C26_Witness ==
    /\ exists = {"demo-editing"}
    /\ scheduled = {"demo-editing"}
    /\ watching
    /\ pc["main"] = "serving"
    /\ process \in alive


(***************************************************************************)
(* C27: hot_reload_server launches a child only in main's initial          *)
(* start_server and in a restart that an accepted event set off (its       *)
(* retries included).  Whatever else happens, in particular when the child *)
(* exits by itself, no child appears.                                      *)
(***************************************************************************)
C27_LaunchOnlyOnStartOrChange ==
    [][(\E p \in Pids : p \notin alive /\ p \in alive')
        => \/ Spawns("main") /\ main_starts = 1
           \/ Spawns("watcher") /\ delivered.outcome = "accepted" /\ pending_restart]_vars

C27_Witness ==
    /\ pc["main"] = "serving"
    /\ pc["watcher"] = "idle"
    /\ delivered = NoDelivery
    /\ queue = <<>>
    /\ process # 0
    /\ alive = {}
    /\ timer["main"] = 0


(***************************************************************************)
(* C28: GradioServerManager.retry_count stays within 0..max_retries, and   *)
(* it is 0 whenever the observer thread is not inside a restart: every     *)
(* restart set off by a change starts with the full budget of retries.     *)
(***************************************************************************)
C28_RetryCountBounded ==
    /\ retry_count \in 0..max_retries
    /\ ~InHandler => retry_count = 0

C28_Witness ==
    /\ retry_count = max_retries - 1
    /\ pc["watcher"] = "start_wait"
    /\ process \in alive


(***************************************************************************)
(* C29: dev_server and dev_server_advanced, a reload that fails.  The      *)
(* import that raises is caught in the handler: the debounce clock has     *)
(* been set for the event, the module is absent from sys.modules, and the  *)
(* next eligible change handled after reload_delay is accepted and tries   *)
(* the import again, whatever the result of the reload before.  No event   *)
(* that is not accepted touches sys.modules.                               *)
(***************************************************************************)
Reloaded(outcome) == outcome \in {"accepted", "reload_failed"}

C29_FailedReloadIsCaught ==
    [][(Delivers /\ delivered'.handler \in ReloadHandlers)
        => LET h == delivered'.handler
           IN /\ (PathEligible(h, delivered'.ev) /\ since_reload[h] >= reload_delay(h))
                    => Reloaded(delivered'.outcome)
              /\ Reloaded(delivered'.outcome)
                    => /\ since_reload'[h] = 0
                       /\ calls'[h] = calls[h] + 1
              /\ delivered'.outcome = "reload_failed" => app_module(h) \notin sys_modules'
              /\ delivered'.outcome = "accepted" => app_module(h) \in sys_modules'
              /\ ~Reloaded(delivered'.outcome) => UNCHANGED sys_modules]_vars

C29_Witness ==
    /\ delivered.handler = "PythonReloadHandler"
    /\ delivered.prev = "reload_failed"
    /\ delivered.outcome = "accepted"
    /\ calls["PythonReloadHandler"] = 2
    /\ app_module("PythonReloadHandler") \in sys_modules


(***************************************************************************)
(* C30: dev_server_advanced.  The CSS handler and the Python handler are   *)
(* independent: the CSS handler acts only on .css files and the Python     *)
(* handler only on .py files, and whatever one of them does with an event  *)
(* leaves the other's debounce clock and count alone, so that an accepted  *)
(* event of one kind never has one of the other kind dropped.  The CSS     *)
(* handler never touches sys.modules.                                      *)
(***************************************************************************)
C30_CssAndPythonIndependent ==
    [][Delivers
        => /\ delivered'.handler = "CSSReloadHandler"
                => /\ Reloaded(delivered'.outcome) => EndsWith(delivered'.ev.src_path, DotCss)
                   /\ since_reload'["PythonReloadHandler"] = since_reload["PythonReloadHandler"]
                   /\ calls'["PythonReloadHandler"] = calls["PythonReloadHandler"]
                   /\ UNCHANGED sys_modules
           /\ delivered'.handler = "PythonReloadHandler"
                => /\ Reloaded(delivered'.outcome) => EndsWith(delivered'.ev.src_path, DotPy)
                   /\ since_reload'["CSSReloadHandler"] = since_reload["CSSReloadHandler"]
                   /\ calls'["CSSReloadHandler"] = calls["CSSReloadHandler"]]_vars

C30_Witness ==
    /\ delivered.handler = "CSSReloadHandler"
    /\ delivered.outcome = "accepted"
    /\ delivered.prev = "accepted"
    /\ calls["PythonReloadHandler"] = 1
    /\ calls["CSSReloadHandler"] = 1
    /\ since_reload["PythonReloadHandler"] = 0
    /\ since_reload["CSSReloadHandler"] = 0

(***************************************************************************)
(* dev_server.py: one GradioReloadHandler scheduled recursively for the    *)
(* project directory and for its minigpt4 subdirectory.  The observer      *)
(* keeps one watch per scheduled directory, and a change below both is     *)
(* queued once for each; the observer thread runs on_modified for one      *)
(* queued event at a time, the re-import included.                         *)
(***************************************************************************)
\* watch_dirs of dev_server.py: project_root and project_root / "minigpt4"
DevWatchDirs == {"demo-editing", "demo-editing/minigpt4"}

\* the paths of the two watch directories
RootPath(d) == IF d = "demo-editing" THEN <<"d">> ELSE <<"d", "/", "m">>

StartsWith(s, pre) == Len(s) >= Len(pre) /\ SubSeq(s, 1, Len(pre)) = pre

\* the path lies below the watch directory (recursive=True)
Under(d, p) == StartsWith(p, RootPath(d) \o <<"/">>)

PathInnerPy == RootPath("demo-editing/minigpt4") \o <<"/", "a">> \o DotPy
PathInnerNotes == RootPath("demo-editing/minigpt4") \o <<"/", "n", ".", "t", "x", "t">>

\* the changes made below the project directory
DevEvents == {Ev(FALSE, PathAppPy, "modified"), Ev(FALSE, PathInnerPy, "modified"),
              Ev(FALSE, PathInnerNotes, "modified")}

\* the scheduled watches an event is queued for, the outer one first
WatchesOf(ev) ==
    LET copies(d) == IF d \in scheduled /\ Under(d, ev.src_path)
                     THEN <<[ev |-> ev, root |-> d]>> ELSE <<>>
        both == copies("demo-editing") \o copies("demo-editing/minigpt4")
    IN [i \in 1..Len(both) |-> [ev |-> both[i].ev, root |-> both[i].root, copy |-> i]]

\* start_file_watcher("demo_v5", watch_dirs): observer.schedule for every
\* watch directory that exists, then observer.start()
DevStartFileWatcher ==
    /\ pc["main"] = "g_start_file_watcher"
    /\ scheduled' = {d \in DevWatchDirs : d \in exists}
    /\ watching' = TRUE
    /\ Goto("main", "g_run")
    /\ UNCHANGED <<eventVars, timer, target, handlerVars, procVars,
                   sys_modules, probe, exit_status, main_starts, stops,
                   exists, ghostVars, ageVars>>

\* run_gradio_app: `from demo_v5 import demo', then demo.launch, which
\* serves until it is interrupted; an import that raises is reported
DevRunGradioApp ==
    /\ pc["main"] = "g_run"
    /\ \E imported \in BOOLEAN :
          /\ sys_modules' = IF imported
                            THEN sys_modules \cup {app_module("GradioReloadHandler")}
                            ELSE sys_modules
          /\ Goto("main", IF imported THEN "g_launch" ELSE "g_finally")
    /\ UNCHANGED <<eventVars, watching, timer, target, handlerVars, procVars,
                   probe, watchVars, exit_status, main_starts, stops, ghostVars,
                   ageVars>>

\* KeyboardInterrupt during demo.launch: run_gradio_app returns
DevInterrupt ==
    /\ pc["main"] = "g_launch"
    /\ Goto("main", "g_finally")
    /\ UNCHANGED <<eventVars, watching, timer, target, handlerVars, procVars,
                   otherVars, ghostVars, ageVars>>

\* finally: observer.stop()
DevObserverStop ==
    /\ pc["main"] = "g_finally"
    /\ watching' = FALSE
    /\ Goto("main", "g_join")
    /\ UNCHANGED <<eventVars, timer, target, handlerVars, procVars,
                   otherVars, ghostVars, ageVars>>

\* observer.join() returns once the observer thread has left the handler
DevObserverJoin ==
    /\ pc["main"] = "g_join"
    /\ pc["watcher"] = "idle"
    /\ Goto("main", "exit")
    /\ UNCHANGED <<eventVars, watching, timer, target, handlerVars, procVars,
                   otherVars, ghostVars, ageVars>>

\* a file below the project directory is modified: the event is queued
\* once for every scheduled watch that covers its path
DevFileChange(ev) ==
    /\ watching
    /\ nEvents < MaxEvents
    /\ \A d \in DevWatchDirs : Under(d, ev.src_path) => d \in exists
    /\ queue' = queue \o WatchesOf(ev)
    /\ nEvents' = nEvents + 1
    /\ UNCHANGED <<watching, threadVars, handlerVars, procVars, otherVars,
                   ghostVars, ageVars>>

\* GradioReloadHandler.on_modified for the next queued event, up to
\* `del sys.modules[self.app_module]'
DevOnModified ==
    /\ pc["watcher"] = "idle"
    /\ watching
    /\ queue # <<>>
    /\ LET h == "GradioReloadHandler"
           e == Head(queue)
           out == Dispatch(h, e.ev, since_reload[h], FALSE)
       IN /\ queue' = Tail(queue)
          /\ delivered' = Delivery(h, e.ev, out, FALSE)
          /\ IF out = "accepted"
             THEN /\ since_reload' = [since_reload EXCEPT ![h] = 0]
                  /\ calls' = [calls EXCEPT ![h] = @ + 1]
                  /\ sys_modules' = sys_modules \ {app_module(h)}
                  /\ Goto("watcher", "g_import")
             ELSE UNCHANGED <<since_reload, calls, sys_modules, pc>>
    /\ UNCHANGED <<nEvents, watching, timer, target, pending_restart,
                   resetTimers, procVars, probe, watchVars, exit_status,
                   main_starts, stops, restarts, burst, ageVars>>

\* `__import__(self.app_module)' returns or raises, after whatever time the
\* module takes to run; on_modified returns
DevImport ==
    /\ pc["watcher"] = "g_import"
    /\ \E imported \in BOOLEAN :
          /\ sys_modules' = Reimport(sys_modules, app_module("GradioReloadHandler"),
                                     imported)
          /\ delivered' = IF imported THEN delivered
                          ELSE [delivered EXCEPT !.outcome = "reload_failed"]
    /\ Goto("watcher", "idle")
    /\ UNCHANGED <<eventVars, watching, timer, target, handlerVars, procVars,
                   probe, watchVars, exit_status, main_starts, stops, calls,
                   restarts, burst, ageVars>>

\* the clock of dev_server: the observer thread takes a queued event at
\* once, so no second passes while an event waits for the idle thread
DevTick ==
    /\ ~(watching /\ pc["watcher"] = "idle" /\ queue # <<>>)
    /\ Tick

\* dev_server.py at its first statement after the definitions; the project
\* directory exists, its minigpt4 subdirectory may not
InitDev ==
    /\ InitCommon
    /\ watching = FALSE
    /\ probe = {}
    /\ exists \in {{"demo-editing"}, DevWatchDirs}
    /\ scheduled = {}
    /\ pc = [t \in Threads |-> IF t = "main" THEN "g_start_file_watcher" ELSE "idle"]

NextDev ==
    \/ DevStartFileWatcher
    \/ DevRunGradioApp
    \/ DevInterrupt
    \/ DevObserverStop
    \/ DevObserverJoin
    \/ \E ev \in DevEvents : DevFileChange(ev)
    \/ DevOnModified
    \/ DevImport
    \/ DevTick

SpecDev == InitDev /\ [][NextDev]_vars

(***************************************************************************)
(* C31: dev_server, one modification of an eligible file below the inner   *)
(* watch directory, queued once for each of the two watches: when the      *)
(* second of the two events is handled, exactly one of the two has         *)
(* reloaded the application (the other was dropped).                       *)
(***************************************************************************)
C31_OneReloadForOverlappingRoots ==
    [][(HandlesEvent /\ Head(queue).copy = 2
            /\ PathEligible("GradioReloadHandler", Head(queue).ev))
        => (Reloaded(delivered.outcome) # Reloaded(delivered'.outcome))]_vars


(***************************************************************************)
(* hot_reload_server.py: HotReloadHandler and the events of a rename.      *)
(* watchdog's moved event carries the old path as src_path and the new one *)
(* as dest_path; on_modified, on_created and on_moved all pass the event   *)
(* to _handle_file_change.                                                 *)
(***************************************************************************)
\* the event with the path the file has been moved to (none: not a move)
WithDest(ev, dest) ==
    [is_directory |-> ev.is_directory, src_path |-> ev.src_path,
     kind |-> ev.kind, dest_path |-> dest]

MoveEvents ==
    {WithDest(ev, dest) : ev \in {e \in Events : e.kind = "moved"}, dest \in Paths}
        \cup {WithDest(ev, <<>>) : ev \in {e \in Events : e.kind # "moved"}}

\* the handler by itself, as in SpecHandlers, with the events of renames
InitMoves ==
    /\ InitCommon
    /\ watching = TRUE
    /\ exists = HotWatchDirs
    /\ scheduled = HotWatchDirs
    /\ pc = [t \in Threads |-> "idle"]
    /\ probe = {"counts"}

NextMoves ==
    \/ \E ev \in MoveEvents : Deliver("HotReloadHandler", ev)
    \/ ResetPending
    \/ Tick

SpecMoves == InitMoves /\ [][NextMoves]_vars

(***************************************************************************)
(* C32: HotReloadHandler treats modified, created and moved events alike,  *)
(* by the source path alone.  An event triggers a restart exactly when it  *)
(* is not a directory event, its source path is eligible, the debounce     *)
(* interval has passed and no restart is pending, whatever its kind and    *)
(* whatever the path a moved file has been moved to; any other event       *)
(* changes nothing.                                                        *)
(***************************************************************************)
C32_MovedFilteredBySourcePath ==
    [][(Delivers /\ delivered'.handler = "HotReloadHandler")
        => LET h == "HotReloadHandler"
               ev == delivered'.ev
               accepts == /\ ~ev.is_directory
                          /\ ~IneligiblePath(ev.src_path)
                          /\ since_reload[h] >= HOT_RELOAD_DELAY
                          /\ ~pending_restart
           IN /\ accepts => /\ calls'[h] = calls[h] + 1
                            /\ since_reload'[h] = 0
                            /\ pending_restart'
              /\ ~accepts => UNCHANGED <<calls, handlerVars, procVars>>]_vars

C32_Witness ==
    /\ delivered.handler = "HotReloadHandler"
    /\ delivered.ev = WithDest(Ev(FALSE, PathNotes, "moved"), PathAppPy)
    /\ delivered.outcome = "extension"
    /\ ~delivered.pending
    /\ since_reload["HotReloadHandler"] = AgeCap
    /\ calls["HotReloadHandler"] = 0

====
